---------------------------- MODULE Spec2Model ----------------------------
(***************************************************************************)
(* Model of SceneAdaptor (src/scene_adaptor.py) and of its protocol        *)
(* variant MonitorAdaptor (src/monitor_adaptor.py): the track store and    *)
(* the aircraft store with their time-window eviction, the commands the    *)
(* domain methods put on the outbound queue, and the per-connection merge  *)
(* loop `serve` that interleaves inbound dispatch with outbound draining.  *)
(*                                                                         *)
(* Python dicts keep insertion order, and the rendered commands follow     *)
(* that order, so a dict is modelled as a sequence of [k, v] entries.      *)
(* A command is a text in the source; the model keeps its structure (the   *)
(* frontend call and the interpolated values) as a record.                 *)
(***************************************************************************)
EXTENDS Integers, Sequences, FiniteSets, TLC

(***************************************************************************)
(* Bounds of the model.                                                    *)
(***************************************************************************)
MaxTrackId == 2
MaxTime    == 2
MaxTTL     == 1
MaxBatch   == 2
MaxTrackCalls == 3
MaxAirId   == 2
MaxAirCalls == 3
MaxConns   == 2
MaxPut     == 3
MaxInbound == 2
MaxData    == 2

VARIABLES
    tracks,     \* self.tracks: ordered dict id -> list of Track samples
    airplanes,  \* self.airplanes: ordered dict id -> latest Airplane sample
    mq,         \* self.mq: the outbound Queue, head first
    nput,       \* ghost: number of mq.put calls made so far
    call,       \* ghost: the last call of update_track, update_airplane or
                \* add_cuboid_zone, and its arguments
    sock,       \* per connection: "none" (not yet accepted), "open", "closed"
    pc,         \* per connection: where its serve coroutine stands
    inbox,      \* per connection: inbound messages not yet returned by recv()
    message,    \* per connection: the local `message` taken from the queue
    sent,       \* ghost, per connection: the messages websocket.send delivered
    received,   \* ghost, per connection: the messages handed to on_message
    clicked,    \* ghost: the arguments device_clicked_handler was called with
    why,        \* ghost, per connection: what ended its serve coroutine
    backlog,    \* ghost: the queue length when the first connection was accepted
    shared,     \* ghost, per connection: another loop ran during its lifetime
    thr,        \* per caller thread: where its update_track call stands, and
                \* the locals of the call
    heap        \* the dict and list objects that the concurrent calls of
                \* update_track share, and the dict that self.tracks is

store == <<tracks, airplanes>>

queue == <<mq, nput, call>>

channel == <<sock, pc, inbox, message, sent, received, clicked, why, backlog, shared>>

vars == <<tracks, airplanes, mq, nput, call, sock, pc, inbox, message, sent,
          received, clicked, why, backlog, shared, thr, heap>>

(***************************************************************************)
(* Ordered dicts.                                                          *)
(***************************************************************************)
Keys(d) == {d[i].k : i \in DOMAIN d}

KeyList(d) == [i \in DOMAIN d |-> d[i].k]

Get(d, key) == d[CHOOSE i \in DOMAIN d : d[i].k = key].v

\* d[key] = val: an existing key keeps its position, a new key goes last
Put(d, key, val) ==
    IF key \in Keys(d)
    THEN [i \in DOMAIN d |-> IF d[i].k = key THEN [k |-> key, v |-> val] ELSE d[i]]
    ELSE Append(d, [k |-> key, v |-> val])

(***************************************************************************)
(* Track samples and the inputs of update_track.                           *)
(***************************************************************************)
Track(id, lng, lat, alt, track_at, type, size) ==
    [id |-> id, lng |-> lng, lat |-> lat, alt |-> alt, track_at |-> track_at,
     type |-> type, size |-> size]

TrackIds == 1..MaxTrackId

Times == 0..MaxTime

TTLs == 0..MaxTTL

\* the samples offered to update_track: one per id and timestamp, with
\* positions, altitudes and classifications that differ between samples
TrackSamples ==
    { Track(id, 113 + id, 23 + t, 50 + 10 * t, t,
            IF t % 2 = 0 THEN "drone" ELSE "bird",
            IF id % 2 = 0 THEN "small" ELSE "large") :
        id \in TrackIds, t \in Times }

TrackBatches ==
    UNION { [1..n -> TrackSamples] : n \in 0..MaxBatch }

(***************************************************************************)
(* update_track, lines 170-180: append, find the batch maximum, evict.     *)
(***************************************************************************)
RECURSIVE AppendTracks(_, _)
AppendTracks(d, batch) ==
    IF batch = <<>> THEN d
    ELSE LET track == Head(batch)
             old   == IF track.id \in Keys(d) THEN Get(d, track.id) ELSE <<>>
         IN  AppendTracks(Put(d, track.id, Append(old, track)), Tail(batch))

\* max(tracks, key=lambda t: t.track_at).track_at, for a non-empty batch
LatestTrackAt(batch) ==
    CHOOSE m \in {batch[i].track_at : i \in DOMAIN batch} :
        \A i \in DOMAIN batch : batch[i].track_at <= m

\* a variant that also evicts the sample exactly clear_timeout old
InWindowStrict(latest_track_at, track_at, clear_timeout) ==
    latest_track_at - track_at < clear_timeout

\* a variant that also evicts the samples more than clear_timeout newer
InWindowTwoSided(latest_track_at, track_at, clear_timeout) ==
    /\ latest_track_at - track_at <= clear_timeout
    /\ track_at - latest_track_at <= clear_timeout

InWindow(latest_track_at, track_at, clear_timeout) ==
    latest_track_at - track_at <= clear_timeout

\* a variant that measures each history against its own newest sample
FilterTracksPerId(d, latest_track_at, clear_timeout) ==
    [i \in DOMAIN d |->
        [k |-> d[i].k,
         v |-> SelectSeq(d[i].v,
                 LAMBDA track :
                    \E newest \in DOMAIN d[i].v :
                        /\ \A j \in DOMAIN d[i].v :
                              d[i].v[j].track_at <= d[i].v[newest].track_at
                        /\ InWindow(d[i].v[newest].track_at, track.track_at,
                                    clear_timeout))]]

FilterTracks(d, latest_track_at, clear_timeout) ==
    [i \in DOMAIN d |->
        [k |-> d[i].k,
         v |-> SelectSeq(d[i].v,
                 LAMBDA track : InWindow(latest_track_at, track.track_at, clear_timeout))]]

DropEmpty(d) == SelectSeq(d, LAMBDA e : Len(e.v) > 0)

ApplyTrackBatch(d, batch, clear_timeout) ==
    DropEmpty(FilterTracks(AppendTracks(d, batch), LatestTrackAt(batch), clear_timeout))

(***************************************************************************)
(* update_track, lines 182-210: the track-line command.                    *)
(***************************************************************************)
\* a variant that draws only the newest point of a history
TrackLineNewest(hist) ==
    [positions |-> << <<hist[Len(hist)].lng, hist[Len(hist)].lat>> >>,
     heightsInMeter |-> <<hist[Len(hist)].alt>>,
     type |-> hist[Len(hist)].type,
     size |-> hist[Len(hist)].size]

\* one polyline; type and size are read from the loop variable `track`
\* after the inner loop, that is, from the last sample of the history
TrackLine(hist) ==
    [positions |-> [i \in DOMAIN hist |-> <<hist[i].lng, hist[i].lat>>],
     heightsInMeter |-> [i \in DOMAIN hist |-> hist[i].alt],
     type |-> hist[Len(hist)].type,
     size |-> hist[Len(hist)].size]

GetParameter(d) == [i \in DOMAIN d |-> TrackLine(d[i].v)]

TrackLinesCommand(d) ==
    [api |-> "trackLines.show", parameter |-> GetParameter(d), ids |-> KeyList(d)]

(***************************************************************************)
(* Aircraft samples and the inputs of update_airplane.  The aircraft of    *)
(* the model fly along the meridian 113 E between 23 N and 24 N, where the *)
(* geodesic is the meridian arc and the inverse solution is known exactly. *)
(* Lengths on the ground are in millimetres, altitudes in metres, angles   *)
(* in millionths of a degree.                                              *)
(***************************************************************************)
Airplane(id, lng, lat, alt, track_at, name) ==
    [id |-> id, lng |-> lng, lat |-> lat, alt |-> alt, track_at |-> track_at,
     name |-> name]

AirIds == 1..MaxAirId

AirPoses == { [lat |-> 23, alt |-> 200], [lat |-> 24, alt |-> 200],
              [lat |-> 24, alt |-> 400] }

AirSamples ==
    { Airplane(id, 113, p.lat, p.alt, t, <<"airplane", id>>) :
        id \in AirIds, p \in AirPoses, t \in Times }

\* WGS84 meridian arc between 23 N and 24 N, in millimetres
ArcLat23To24 == 110751075

\* degrees(atan2(200 m, ArcLat23To24)), in millionths of a degree
PitchOfClimb == 103468

HalfTurn == 180000000

QuarterTurn == 90000000

\* Geodesic.WGS84.Inverse(lat1, lng1, lat2, lng2) for two points of the same
\* meridian in the northern hemisphere: s12 is the arc between them; the
\* final azimuth is 0 heading north and 180 heading south, and 180 for
\* coincident points
Inverse(lat1, lng1, lat2, lng2) ==
    [s12  |-> IF lat1 = lat2 THEN 0 ELSE ArcLat23To24,
     azi2 |-> IF lat2 > lat1 THEN 0 ELSE HalfTurn]

\* degrees(atan2(y, x)) for y a multiple of 200 m in -200..200 and x >= 0
DegreesAtan2(y, x) ==
    IF y = 0 THEN 0
    ELSE IF x = 0 THEN (IF y > 0 THEN QuarterTurn ELSE -QuarterTurn)
    ELSE IF y > 0 THEN PitchOfClimb ELSE -PitchOfClimb

\* None, and a number v, as values of one kind
None == <<>>

Num(v) == <<v>>

\* {rotate if rotate else "null"}: None and zero both print as null
OrNull(rotate) == IF rotate # None /\ rotate[1] # 0 THEN rotate ELSE None

Scale == 40

\* a variant that stores the sample before it looks for the previous one
RotationAfterStore(d, airplane) ==
    LET last   == airplane
        result == Inverse(last.lat, last.lng, airplane.lat, airplane.lng)
    IN  [x |-> Num(DegreesAtan2(airplane.alt - last.alt, result.s12)),
         y |-> None,
         z |-> Num(result.azi2)]

\* lines 324-335: the previous sample of the id, if any, gives the rotation
Rotation(d, airplane) ==
    IF airplane.id \notin Keys(d)
    THEN [x |-> None, y |-> None, z |-> None]
    ELSE LET last   == Get(d, airplane.id)
             result == Inverse(last.lat, last.lng, airplane.lat, airplane.lng)
         IN  [x |-> Num(DegreesAtan2(airplane.alt - last.alt, result.s12)),
              y |-> None,
              z |-> Num(result.azi2)]

\* lines 337-339: keep the samples within clear_timeout of the new one
FilterAirplanes(d, latest_track_at, clear_timeout) ==
    SelectSeq(d, LAMBDA e : InWindow(latest_track_at, e.v.track_at, clear_timeout))

\* a variant that stores the sample and evicts nothing
StoreAirplaneSample(d, airplane, clear_timeout) ==
    Put(d, airplane.id, airplane)

ApplyAirplaneSample(d, airplane, clear_timeout) ==
    FilterAirplanes(Put(d, airplane.id, airplane), airplane.track_at, clear_timeout)

\* a variant that gives every aircraft the rotation just computed
AirplaneToShowRotated(shown, airplane, rotate) ==
    [position |-> <<shown.lng, shown.lat>>, heightInMeter |-> shown.alt,
     scale |-> Scale,
     rotateX |-> OrNull(rotate.x), rotateY |-> OrNull(rotate.y),
     rotateZ |-> OrNull(rotate.z), name |-> shown.name]

\* lines 343-369: one entry per stored aircraft
AirplaneToShow(shown, airplane, rotate) ==
    IF shown.id = airplane.id
    THEN [position |-> <<shown.lng, shown.lat>>, heightInMeter |-> shown.alt,
          scale |-> Scale,
          rotateX |-> OrNull(rotate.x), rotateY |-> OrNull(rotate.y),
          rotateZ |-> OrNull(rotate.z), name |-> shown.name]
    ELSE [position |-> <<shown.lng, shown.lat>>, height |-> shown.alt,
          scale |-> Scale,
          rotateX |-> None, rotateY |-> None, rotateZ |-> None,
          name |-> shown.name]

AirplanesCommand(d, airplane, rotate) ==
    [api |-> "airplanes.show",
     parameter |-> [i \in DOMAIN d |-> AirplaneToShow(d[i].v, airplane, rotate)]]

(***************************************************************************)
(* The outbound queue.  A queued message carries the command and, as a     *)
(* ghost field, the ordinal of the put that enqueued it.                   *)
(***************************************************************************)
Message(no, body) == [no |-> no, body |-> body]

\* a variant whose put writes over the last waiting message
MqPutOverwrite(q, no, body) ==
    IF q = <<>> THEN <<Message(no, body)>>
    ELSE Append(SubSeq(q, 1, Len(q) - 1), Message(no, body))

\* self.mq.put(message) on the thread-safe queue.Queue of line 94
MqPut(q, no, body) == Append(q, Message(no, body))

(***************************************************************************)
(* Inbound messages and on_message, lines 124-129.  A raw message is       *)
(* either text that json.loads rejects or a JSON object with some of the   *)
(* keys "event" and "data".                                                *)
(***************************************************************************)
Conns == 1..MaxConns

Data == 1..MaxData

RawMessage(json, event, data) == [json |-> json, event |-> event, data |-> data]

\* the messages the clients of the model send: one that is no JSON, one
\* without "event", one without "data", and well-formed envelopes
RawMessages ==
    { RawMessage(FALSE, None, None),
      RawMessage(TRUE, None, Num(1)),
      RawMessage(TRUE, Num("deviceClicked"), None),
      RawMessage(TRUE, Num("deviceHovered"), Num(1)) }
    \cup { RawMessage(TRUE, Num("deviceClicked"), Num(d)) : d \in Data }

\* json.loads(message), message["event"], message["data"]
Malformed(raw) == ~raw.json \/ raw.event = None \/ raw.data = None

\* a variant that calls the handler for every event
OnMessageAnyEvent(raw) ==
    IF Malformed(raw) THEN [raised |-> TRUE, handler |-> None]
    ELSE [raised |-> FALSE, handler |-> raw.data]

\* what on_message does with a raw message: raise, or return after calling
\* the handler when the event is deviceClicked
OnMessage(raw) ==
    IF ~raw.json THEN [raised |-> TRUE, handler |-> None]
    ELSE IF raw.event = None THEN [raised |-> TRUE, handler |-> None]
    ELSE IF raw.data = None THEN [raised |-> TRUE, handler |-> None]
    ELSE IF raw.event[1] = "deviceClicked"
         THEN [raised |-> FALSE, handler |-> raw.data]
         ELSE [raised |-> FALSE, handler |-> None]

\* a variant of MonitorAdaptor.on_message that parses and dispatches
MonitorOnMessageDispatch(raw) ==
    IF Malformed(raw) THEN [raised |-> TRUE, handler |-> None]
    ELSE IF raw.event[1] = "deviceClicked"
         THEN [raised |-> FALSE, handler |-> raw.data]
         ELSE [raised |-> FALSE, handler |-> None]

\* MonitorAdaptor.on_message: print(message), whatever the message is
MonitorOnMessage(raw) == [raised |-> FALSE, handler |-> None]

\* a variant that takes the newest message
GetNewest(q) == [message |-> q[Len(q)], rest |-> SubSeq(q, 1, Len(q) - 1)]

\* self.mq.get_nowait() on a non-empty queue: the message and the rest
GetNowait(q) == [message |-> Head(q), rest |-> Tail(q)]

Running(c) == pc[c] \in {"recv", "get", "send"}

\* the number of messages the clients have sent so far
RECURSIVE InboundUpTo(_)
InboundUpTo(c) ==
    IF c = 0 THEN 0 ELSE Len(inbox[c]) + Len(received[c]) + InboundUpTo(c - 1)

(***************************************************************************)
(* The stateless domain methods that feed the queue in the channel's       *)
(* specification.                                                          *)
(***************************************************************************)
Zooms == {14}

Pitches == {70}

SetZoomCommand(zoom) == [api |-> "map.setZoom", parameter |-> zoom]

SetPitchCommand(pitch) == [api |-> "map.setPitch", parameter |-> pitch]

NoCall == [op |-> "none"]

(***************************************************************************)
(* update_track called from two threads at once, lines 170-210.  The       *)
(* adaptor has no lock around its stores.  The interpreter switches        *)
(* threads at the entry of a Python function, after the call of a built-in *)
(* function or method and at a backward jump of a loop; a step of the      *)
(* model is what one call does to the shared objects between two such      *)
(* points.  The objects are on a heap: self.tracks refers to one dict, a   *)
(* dict maps each id to a list, and a view, an iterator or a local         *)
(* variable of a call keeps referring to its dict or list after            *)
(* self.tracks has become another dict.                                    *)
(***************************************************************************)
Threads == {1, 2}

NotCalling ==
    [pc |-> "idle", batch |-> <<>>, ttl |-> 0, i |-> 0, view |-> 0, used |-> 0,
     pos |-> 0, id |-> 0, lst |-> 0, idx |-> 0, acc |-> <<>>, positions |-> <<>>,
     heights |-> <<>>, track |-> None, parameter |-> <<>>, ids |-> <<>>,
     error |-> "none"]

\* the batches of the two concurrent calls: one sample each, and newer
\* than the samples of the earlier call when there was one
RaceBatches ==
    {<<track>> : track \in {s \in TrackSamples :
                                call.op = "update_track" => s.track_at >= 1}}

\* the batch of a call that returned before the two calls began: one
\* sample for every id, all of time 0
RaceEarlierBatches ==
    { [id \in TrackIds |-> CHOOSE track \in TrackSamples :
                                track.id = id /\ track.track_at = 0] }

\* an exception leaves update_track: nothing is put on the queue
Raise(t, error) ==
    [NotCalling EXCEPT !.pc = "failed", !.batch = thr[t].batch,
                       !.ttl = thr[t].ttl, !.error = error]

\* the heap of a fresh adaptor: self.tracks = {}
EmptyHeap == [dicts |-> << <<>> >>, lists |-> <<>>, cur |-> 1]

\* the heap after a call that ran alone and left the store d
HeapOf(d) ==
    [dicts |-> << [e \in DOMAIN d |-> [k |-> d[e].k, v |-> e]] >>,
     lists |-> [e \in DOMAIN d |-> d[e].v],
     cur |-> 1]

\* key in dict
HasKey(h, dict, key) == \E e \in DOMAIN h.dicts[dict] : h.dicts[dict][e].k = key

\* dict[key], the list it refers to
RefOf(h, dict, key) ==
    h.dicts[dict][CHOOSE e \in DOMAIN h.dicts[dict] : h.dicts[dict][e].k = key].v

\* dict[key] = the list ref
SetItem(h, dict, key, ref) == [h EXCEPT !.dicts[dict] = Put(@, key, ref)]

\* a new list object; it is the last of the heap
NewList(h, samples) == [h EXCEPT !.lists = Append(@, samples)]

\* self.tracks = a new dict object with the given entries
NewDict(h, entries) ==
    [h EXCEPT !.dicts = Append(@, entries), !.cur = Len(h.dicts) + 1]

\* self.tracks as a value: the ids of the dict it is, with their histories
Contents(h) ==
    [e \in DOMAIN h.dicts[h.cur] |->
        [k |-> h.dicts[h.cur][e].k, v |-> h.lists[h.dicts[h.cur][e].v]]]

(***************************************************************************)
(* add_cuboid_zone, lines 242-275.  Lengths are in metres, the rotation    *)
(* and the centre in degrees; deviations, azimuths and the corners that    *)
(* Direct returns are in millionths of a degree.                           *)
(***************************************************************************)
CuboidZone(id, type, lng, lat, length, width, height, rotation) ==
    [id |-> id, type |-> type, lng |-> lng, lat |-> lat,
     length_in_meter |-> length, width_in_meter |-> width,
     height_in_meter |-> height, rotation |-> rotation]

\* the zones of the model: 60 m by 80 m and 80 m by 60 m around 113E 23N,
\* unrotated or turned by a quarter
CuboidZones ==
    { CuboidZone(id, "zone", 113, 23, size[1], size[2], 100, rotation) :
        id \in {"runway1", "runway2"}, size \in {<<60, 80>>, <<80, 60>>},
        rotation \in {0, 90} }

\* the colour (0, 0.8, 0, 0.5), in tenths
Colors == {<<0, 8, 0, 5>>}

\* degrees(atan2(width, length)) for the sides 60 and 80
Deviation(width, length) ==
    IF width = length THEN 45000000
    ELSE IF width > length THEN 53130102 ELSE 36869898

\* sqrt(length^2 + width^2) / 2 for sides whose diagonal is a whole number
Diagonal(length, width) ==
    (CHOOSE r \in 0..(length + width) : r * r = length * length + width * width) \div 2

\* a variant that lists the corners of one side before those of the other
AzimuthsBySide(rotation, deviation) ==
    << rotation * 1000000 - deviation,
       rotation * 1000000 + 180000000 + deviation,
       rotation * 1000000 + deviation,
       rotation * 1000000 + 180000000 - deviation >>

\* lines 245-250
Azimuths(rotation, deviation) ==
    << rotation * 1000000 - deviation,
       rotation * 1000000 + deviation,
       rotation * 1000000 + 180000000 - deviation,
       rotation * 1000000 + 180000000 + deviation >>

\* Geodesic.WGS84.Direct(lat1, lng1, azi1, s12), its lon2 and lat2, for a
\* point 50 m from 113E 23N: the azimuth is taken modulo a full turn; the
\* point lies 390 or 293 millionths of a degree east or west and 271 or 361
\* north or south of the centre
Direct(lat1, lng1, azi1, s12) ==
    LET azi   == azi1 % 360000000
        fold  == IF azi > 180000000 THEN 360000000 - azi ELSE azi
        steep == fold < 45000000 \/ fold > 135000000
        east  == IF steep THEN 293 ELSE 390
        north == IF steep THEN 361 ELSE 271
    IN  [lon2 |-> lng1 * 1000000 + (IF azi < 180000000 THEN east ELSE -east),
         lat2 |-> lat1 * 1000000 + (IF fold < 90000000 THEN north ELSE -north)]

\* lines 254-264: the four corners in the order of the azimuths
Positions(cuboid_zone) ==
    LET deviation == Deviation(cuboid_zone.width_in_meter, cuboid_zone.length_in_meter)
        azimuths  == Azimuths(cuboid_zone.rotation, deviation)
        diagonal  == Diagonal(cuboid_zone.length_in_meter, cuboid_zone.width_in_meter)
    IN  [i \in 1..4 |->
            LET position == Direct(cuboid_zone.lat, cuboid_zone.lng, azimuths[i], diagonal)
            IN  <<position.lon2, position.lat2>>]

AddCuboidCommand(cuboid_zone, color) ==
    [api |-> "zones.addCuboid",
     cuboid |-> [id |-> cuboid_zone.id, type |-> cuboid_zone.type,
                 positions |-> Positions(cuboid_zone),
                 heightInMeter |-> cuboid_zone.height_in_meter],
     color |-> color]

Init ==
    /\ tracks = <<>>
    /\ airplanes = <<>>
    /\ mq = <<>>
    /\ nput = 0
    /\ call = NoCall
    /\ sock = [c \in Conns |-> "none"]
    /\ pc = [c \in Conns |-> "idle"]
    /\ inbox = [c \in Conns |-> <<>>]
    /\ message = [c \in Conns |-> None]
    /\ sent = [c \in Conns |-> <<>>]
    /\ received = [c \in Conns |-> <<>>]
    /\ clicked = <<>>
    /\ why = [c \in Conns |-> "running"]
    /\ backlog = 0
    /\ shared = [c \in Conns |-> FALSE]
    /\ thr = [t \in Threads |-> NotCalling]
    /\ heap = EmptyHeap

\* a variant of update_track that renders the store without the emptied
\* histories but leaves them in self.tracks
UpdateTrackKeepEmptied ==
    \E batch \in TrackBatches \ {<<>>}, clear_timeout \in TTLs :
        LET kept == FilterTracks(AppendTracks(tracks, batch), LatestTrackAt(batch),
                                 clear_timeout)
        IN  /\ nput < MaxTrackCalls
            /\ tracks' = kept
            /\ mq' = MqPut(mq, nput + 1, TrackLinesCommand(DropEmpty(kept)))
            /\ nput' = nput + 1
            /\ call' = [op |-> "update_track", batch |-> batch,
                        ttl |-> clear_timeout, pre |-> tracks, raised |-> FALSE]
            /\ UNCHANGED <<airplanes, channel, thr, heap>>

(***************************************************************************)
(* update_track(tracks, clear_timeout).  An empty batch raises ValueError  *)
(* at max() before anything was changed or enqueued.                       *)
(***************************************************************************)
UpdateTrack ==
    \E batch \in TrackBatches, clear_timeout \in TTLs :
        /\ nput < MaxTrackCalls
        /\ IF batch = <<>>
           THEN /\ call' = [op |-> "update_track", batch |-> batch,
                            ttl |-> clear_timeout, pre |-> tracks, raised |-> TRUE]
                /\ UNCHANGED <<tracks, mq, nput>>
           ELSE LET new == ApplyTrackBatch(tracks, batch, clear_timeout)
                IN  /\ tracks' = new
                    /\ mq' = MqPut(mq, nput + 1, TrackLinesCommand(new))
                    /\ nput' = nput + 1
                    /\ call' = [op |-> "update_track", batch |-> batch,
                                ttl |-> clear_timeout, pre |-> tracks, raised |-> FALSE]
        /\ UNCHANGED <<airplanes, channel, thr, heap>>

NextTrack == UpdateTrack

SpecTrack == Init /\ [][NextTrack]_vars

(***************************************************************************)
(* update_airplane(airplane, clear_timeout).                               *)
(***************************************************************************)
\* a variant that leaves the samples that are too old in the store and only
\* keeps them out of the command
UpdateAirplaneHideOld ==
    \E airplane \in AirSamples, clear_timeout \in TTLs :
        LET rotate == Rotation(airplanes, airplane)
            new    == Put(airplanes, airplane.id, airplane)
            shown  == FilterAirplanes(new, airplane.track_at, clear_timeout)
        IN  /\ nput < MaxAirCalls
            /\ airplanes' = new
            /\ mq' = MqPut(mq, nput + 1, AirplanesCommand(shown, airplane, rotate))
            /\ nput' = nput + 1
            /\ call' = [op |-> "update_airplane", airplane |-> airplane,
                        ttl |-> clear_timeout, pre |-> airplanes, raised |-> FALSE]
            /\ UNCHANGED <<tracks, channel, thr, heap>>

UpdateAirplane ==
    \E airplane \in AirSamples, clear_timeout \in TTLs :
        LET rotate == Rotation(airplanes, airplane)
            new    == ApplyAirplaneSample(airplanes, airplane, clear_timeout)
        IN  /\ nput < MaxAirCalls
            /\ airplanes' = new
            /\ mq' = MqPut(mq, nput + 1, AirplanesCommand(new, airplane, rotate))
            /\ nput' = nput + 1
            /\ call' = [op |-> "update_airplane", airplane |-> airplane,
                        ttl |-> clear_timeout, pre |-> airplanes, raised |-> FALSE]
            /\ UNCHANGED <<tracks, channel, thr, heap>>

NextAir == UpdateAirplane

\* MonitorAdaptor.update_airplane: the same store and queue, with placeholder
\* rotations 1, 2, 3 (degrees, as written) for an aircraft seen before
MonitorScale == 1000

MonitorRotation(d, airplane) ==
    IF airplane.id \notin Keys(d)
    THEN [x |-> None, y |-> None, z |-> None]
    ELSE [x |-> Num(1), y |-> Num(2), z |-> Num(3)]

MonitorAirplaneToShow(shown, airplane, rotate) ==
    IF shown.id = airplane.id
    THEN [position |-> <<shown.lng, shown.lat>>, height |-> shown.alt,
          scale |-> MonitorScale,
          rotateX |-> OrNull(rotate.x), rotateY |-> OrNull(rotate.y),
          rotateZ |-> OrNull(rotate.z), name |-> shown.name]
    ELSE [position |-> <<shown.lng, shown.lat>>, height |-> shown.alt,
          scale |-> MonitorScale,
          rotateX |-> None, rotateY |-> None, rotateZ |-> None,
          name |-> shown.name]

MonitorAirplanesCommand(d, airplane, rotate) ==
    [api |-> "airplanes.show",
     parameter |-> [i \in DOMAIN d |-> MonitorAirplaneToShow(d[i].v, airplane, rotate)]]

MonitorUpdateAirplane ==
    \E airplane \in AirSamples, clear_timeout \in TTLs :
        LET rotate == MonitorRotation(airplanes, airplane)
            new    == ApplyAirplaneSample(airplanes, airplane, clear_timeout)
        IN  /\ nput < MaxAirCalls
            /\ airplanes' = new
            /\ mq' = MqPut(mq, nput + 1, MonitorAirplanesCommand(new, airplane, rotate))
            /\ nput' = nput + 1
            /\ call' = [op |-> "update_airplane", airplane |-> airplane,
                        ttl |-> clear_timeout, pre |-> airplanes, raised |-> FALSE]
            /\ UNCHANGED <<tracks, channel, thr, heap>>

NextMonitorAir == MonitorUpdateAirplane

SpecMonitorAir == Init /\ [][NextMonitorAir]_vars

SpecAir == Init /\ [][NextAir]_vars

(***************************************************************************)
(* The stateless domain methods: render one command and put it.            *)
(***************************************************************************)
SetZoom ==
    \E zoom \in Zooms :
        /\ nput < MaxPut
        /\ mq' = MqPut(mq, nput + 1, SetZoomCommand(zoom))
        /\ nput' = nput + 1
        /\ UNCHANGED <<store, call, channel, thr, heap>>

SetPitch ==
    \E pitch \in Pitches :
        /\ nput < MaxPut
        /\ mq' = MqPut(mq, nput + 1, SetPitchCommand(pitch))
        /\ nput' = nput + 1
        /\ UNCHANGED <<store, call, channel, thr, heap>>

\* one step of the call of thread t: the heap and the locals it leaves
Step(t, h, locals) ==
    /\ heap' = h
    /\ tracks' = Contents(h)
    /\ thr' = [thr EXCEPT ![t] = locals]
    /\ UNCHANGED <<airplanes, queue, channel>>

\* a call of update_track that returned before the two calls began
RaceEarlier ==
    \E batch \in RaceEarlierBatches, clear_timeout \in {MaxTTL} :
        /\ \A t \in Threads : thr[t].pc = "idle"
        /\ nput = 0
        /\ LET new == ApplyTrackBatch(<<>>, batch, clear_timeout)
           IN  /\ heap' = HeapOf(new)
               /\ tracks' = new
               /\ mq' = MqPut(mq, nput + 1, TrackLinesCommand(new))
        /\ nput' = nput + 1
        /\ call' = [op |-> "update_track", batch |-> batch, ttl |-> clear_timeout,
                    pre |-> <<>>, raised |-> FALSE]
        /\ UNCHANGED <<airplanes, channel, thr>>

\* a thread enters update_track(batch, clear_timeout)
RaceBegin(t) ==
    \E batch \in RaceBatches, clear_timeout \in TTLs :
        /\ thr[t].pc = "idle"
        /\ Step(t, heap, [NotCalling EXCEPT !.pc = "for171", !.batch = batch,
                                            !.ttl = clear_timeout, !.i = 1])

\* line 171 gives the next sample and line 172 calls self.tracks.keys(), or
\* the batch is over and line 177 calls self.tracks.keys(): the view is of
\* the dict that self.tracks is now
RaceKeys(t) ==
    /\ thr[t].pc = "for171"
    /\ Step(t, heap,
            [thr[t] EXCEPT !.view = heap.cur, !.pos = 0,
                           !.pc = IF thr[t].i > Len(thr[t].batch) THEN "iter177"
                                  ELSE "test172"])

\* lines 172-174: the id is looked up in the dict of the view; if it is not
\* there an empty history is stored in the dict that self.tracks is now;
\* the history is read from that dict, a KeyError if it has none, and the
\* sample appended to it
RaceAppend(t) ==
    /\ thr[t].pc = "test172"
    /\ LET track == thr[t].batch[thr[t].i]
           made  == IF HasKey(heap, thr[t].view, track.id) THEN heap
                    ELSE SetItem(NewList(heap, <<>>), heap.cur, track.id,
                                 Len(heap.lists) + 1)
       IN  IF ~HasKey(made, made.cur, track.id)
           THEN Step(t, made, Raise(t, "KeyError"))
           ELSE Step(t, [made EXCEPT !.lists[RefOf(made, made.cur, track.id)] =
                                         Append(@, track)],
                     [thr[t] EXCEPT !.i = @ + 1, !.view = 0, !.pc = "for171"])

\* lines 177-178: the iterator is made on the dict of the view when the
\* loop begins; it raises RuntimeError when that dict has changed size
\* since, and ends the loop after its last key, where line 180 calls
\* self.tracks.items(); otherwise self.tracks[id] is read, a KeyError if
\* the dict that self.tracks is now has not the id, and the list
\* comprehension is entered with an iterator on that list
RaceFilterNext(t) ==
    /\ thr[t].pc \in {"iter177", "next177"}
    /\ LET dict == heap.dicts[thr[t].view]
           used == IF thr[t].pc = "iter177" THEN Len(dict) ELSE thr[t].used
       IN  IF used # Len(dict)
           THEN Step(t, heap, Raise(t, "RuntimeError"))
           ELSE IF thr[t].pos >= Len(dict)
           THEN Step(t, heap, [thr[t] EXCEPT !.view = heap.cur, !.used = 0, !.pos = 0,
                                             !.id = 0, !.pc = "iter180"])
           ELSE IF ~HasKey(heap, heap.cur, dict[thr[t].pos + 1].k)
           THEN Step(t, heap, Raise(t, "KeyError"))
           ELSE Step(t, heap,
                     [thr[t] EXCEPT !.used = used, !.pos = @ + 1,
                                    !.id = dict[thr[t].pos + 1].k,
                                    !.lst = RefOf(heap, heap.cur, dict[thr[t].pos + 1].k),
                                    !.idx = 0, !.acc = <<>>, !.pc = "listcomp178"])

\* lines 178-179, one pass of the list comprehension: the next sample of
\* the list, as long as the list is now, is kept or not; after the last one
\* the new list is stored under the id in the dict that self.tracks is now
RaceFilterStep(t) ==
    /\ thr[t].pc = "listcomp178"
    /\ IF thr[t].idx < Len(heap.lists[thr[t].lst])
       THEN LET track == heap.lists[thr[t].lst][thr[t].idx + 1]
            IN  Step(t, heap,
                     [thr[t] EXCEPT !.idx = @ + 1,
                                    !.acc = IF InWindow(LatestTrackAt(thr[t].batch),
                                                        track.track_at, thr[t].ttl)
                                            THEN Append(@, track) ELSE @])
       ELSE Step(t, SetItem(NewList(heap, thr[t].acc), heap.cur, thr[t].id,
                            Len(heap.lists) + 1),
                 [thr[t] EXCEPT !.lst = 0, !.idx = 0, !.acc = <<>>, !.id = 0,
                                !.pc = "next177"])

\* line 180: the iterator over the items is made and the dict comprehension
\* entered
RaceRebuildBegin(t) ==
    /\ thr[t].pc = "iter180"
    /\ Step(t, heap, [thr[t] EXCEPT !.used = Len(heap.dicts[thr[t].view]), !.pos = 0,
                                    !.acc = <<>>, !.pc = "dictcomp180"])

\* line 180, one pass of the dict comprehension: RuntimeError when the dict
\* of the view has changed size; the next id goes to the new dict, with the
\* list it refers to, if that list is not empty now; after the last id
\* self.tracks becomes the new dict
RaceRebuildNext(t) ==
    /\ thr[t].pc = "dictcomp180"
    /\ LET dict == heap.dicts[thr[t].view]
       IN  IF thr[t].used # Len(dict)
           THEN Step(t, heap, Raise(t, "RuntimeError"))
           ELSE IF thr[t].pos >= Len(dict)
           THEN Step(t, NewDict(heap, thr[t].acc),
                     [thr[t] EXCEPT !.view = 0, !.used = 0, !.pos = 0, !.acc = <<>>,
                                    !.pc = "values184"])
           ELSE Step(t, heap,
                     [thr[t] EXCEPT !.pos = @ + 1,
                                    !.acc = IF Len(heap.lists[dict[thr[t].pos + 1].v]) > 0
                                            THEN Append(@, dict[thr[t].pos + 1])
                                            ELSE @])

\* lines 182-184: get_parameter is entered and calls self.tracks.values()
RaceValues(t) ==
    /\ thr[t].pc = "values184"
    /\ Step(t, heap, [thr[t] EXCEPT !.view = heap.cur, !.pc = "iter184"])

\* lines 193-201: the polyline of the list just read; type and size are
\* those of the local `track`, which is unbound until a list had a sample
LineDone(t, locals, positions, heights, track) ==
    IF track = None
    THEN Raise(t, "UnboundLocalError")
    ELSE [locals EXCEPT !.acc = Append(@, [positions |-> positions,
                                           heightsInMeter |-> heights,
                                           type |-> track[1].type,
                                           size |-> track[1].size]),
                        !.positions = <<>>, !.heights = <<>>, !.track = track,
                        !.lst = 0, !.idx = 0, !.pc = "next184"]

\* lines 184-187: the iterator over the values is made on the dict of the
\* view when the loop begins; it raises RuntimeError when that dict has
\* changed size since, and after its last list line 202 joins the
\* polylines; otherwise the first sample of the next list is read, or the
\* list is empty and its polyline is made
RaceLineNext(t) ==
    /\ thr[t].pc \in {"iter184", "next184"}
    /\ LET dict == heap.dicts[thr[t].view]
           used == IF thr[t].pc = "iter184" THEN Len(dict) ELSE thr[t].used
           pos  == IF thr[t].pc = "iter184" THEN 0 ELSE thr[t].pos
       IN  IF used # Len(dict)
           THEN Step(t, heap, Raise(t, "RuntimeError"))
           ELSE IF pos >= Len(dict)
           THEN Step(t, heap, [thr[t] EXCEPT !.view = 0, !.used = 0, !.pos = 0,
                                             !.parameter = thr[t].acc, !.acc = <<>>,
                                             !.track = None, !.pc = "keys207"])
           ELSE LET tracks_ == heap.lists[dict[pos + 1].v]
                IN  IF Len(tracks_) = 0
                    THEN Step(t, heap,
                              LineDone(t, [thr[t] EXCEPT !.used = used, !.pos = pos + 1],
                                       <<>>, <<>>, thr[t].track))
                    ELSE Step(t, heap,
                              [thr[t] EXCEPT !.used = used, !.pos = pos + 1,
                                             !.lst = dict[pos + 1].v, !.idx = 1,
                                             !.positions = <<<<tracks_[1].lng,
                                                               tracks_[1].lat>>>>,
                                             !.heights = <<tracks_[1].alt>>,
                                             !.track = <<tracks_[1]>>,
                                             !.pc = "inner187"])

\* lines 187-190, one pass of the inner loop: the next sample of the list,
\* as long as the list is now; after the last one the polyline is made
RaceLineStep(t) ==
    /\ thr[t].pc = "inner187"
    /\ IF thr[t].idx < Len(heap.lists[thr[t].lst])
       THEN LET track == heap.lists[thr[t].lst][thr[t].idx + 1]
            IN  Step(t, heap,
                     [thr[t] EXCEPT !.idx = @ + 1,
                                    !.positions = Append(@, <<track.lng, track.lat>>),
                                    !.heights = Append(@, track.alt),
                                    !.track = <<track>>])
       ELSE Step(t, heap, LineDone(t, thr[t], thr[t].positions, thr[t].heights,
                                   thr[t].track))

\* lines 203-207: get_parameter has returned and line 207 calls
\* self.tracks.keys(): the view is of the dict that self.tracks is now
RaceIdsKeys(t) ==
    /\ thr[t].pc = "keys207"
    /\ Step(t, heap, [thr[t] EXCEPT !.view = heap.cur, !.pc = "iter207"])

\* line 207: the iterator over the keys is made and the list comprehension
\* entered
RaceIdsBegin(t) ==
    /\ thr[t].pc = "iter207"
    /\ Step(t, heap, [thr[t] EXCEPT !.used = Len(heap.dicts[thr[t].view]), !.pos = 0,
                                    !.ids = <<>>, !.pc = "listcomp207"])

\* line 207, one pass of the list comprehension: RuntimeError when the dict
\* of the view has changed size; after the last id the message is made
RaceIdsNext(t) ==
    /\ thr[t].pc = "listcomp207"
    /\ LET dict == heap.dicts[thr[t].view]
       IN  IF thr[t].used # Len(dict)
           THEN Step(t, heap, Raise(t, "RuntimeError"))
           ELSE IF thr[t].pos >= Len(dict)
           THEN Step(t, heap, [thr[t] EXCEPT !.view = 0, !.used = 0, !.pos = 0,
                                             !.pc = "put210"])
           ELSE Step(t, heap, [thr[t] EXCEPT !.pos = @ + 1,
                                             !.ids = Append(@, dict[thr[t].pos + 1].k)])

\* line 210: self.mq.put(message)
RacePut(t) ==
    /\ thr[t].pc = "put210"
    /\ mq' = MqPut(mq, nput + 1, [api |-> "trackLines.show",
                                  parameter |-> thr[t].parameter,
                                  ids |-> thr[t].ids])
    /\ nput' = nput + 1
    /\ thr' = [thr EXCEPT ![t] = [NotCalling EXCEPT !.pc = "done",
                                                    !.batch = thr[t].batch,
                                                    !.ttl = thr[t].ttl]]
    /\ UNCHANGED <<store, call, channel, heap>>

NextRace ==
    \/ RaceEarlier
    \/ \E t \in Threads : RaceBegin(t)
    \/ \E t \in Threads : RaceKeys(t)
    \/ \E t \in Threads : RaceAppend(t)
    \/ \E t \in Threads : RaceFilterNext(t)
    \/ \E t \in Threads : RaceFilterStep(t)
    \/ \E t \in Threads : RaceRebuildBegin(t)
    \/ \E t \in Threads : RaceRebuildNext(t)
    \/ \E t \in Threads : RaceValues(t)
    \/ \E t \in Threads : RaceLineNext(t)
    \/ \E t \in Threads : RaceLineStep(t)
    \/ \E t \in Threads : RaceIdsKeys(t)
    \/ \E t \in Threads : RaceIdsBegin(t)
    \/ \E t \in Threads : RaceIdsNext(t)
    \/ \E t \in Threads : RacePut(t)

SpecRace == Init /\ [][NextRace]_vars

AddCuboidZone ==
    \E cuboid_zone \in CuboidZones, color \in Colors :
        /\ nput < MaxPut
        /\ mq' = MqPut(mq, nput + 1, AddCuboidCommand(cuboid_zone, color))
        /\ nput' = nput + 1
        /\ call' = [op |-> "add_cuboid_zone", zone |-> cuboid_zone, color |-> color]
        /\ UNCHANGED <<store, channel, thr, heap>>

NextZone == AddCuboidZone

SpecZone == Init /\ [][NextZone]_vars

(***************************************************************************)
(* The other domain methods, lines 131-168 and 212-321: each renders its   *)
(* arguments and puts the command on the queue.  A visibility is the       *)
(* boolean that the command prints as true or false.                       *)
(***************************************************************************)
Device(id, type, lng, lat, name, functional) ==
    [id |-> id, type |-> type, lng |-> lng, lat |-> lat, name |-> name,
     functional |-> functional]

Devices == { Device("camera1", "camera", 113, 23, "gate", f) : f \in BOOLEAN }

CylinderZone(id, type, lng, lat, radius, height) ==
    [id |-> id, type |-> type, lng |-> lng, lat |-> lat,
     radius_in_meter |-> radius, height_in_meter |-> height]

CylinderZones == { CylinderZone("tower1", "zone", 113, 23, 50, 100) }

Staff(id, lng, lat, track_at, name) ==
    [id |-> id, lng |-> lng, lat |-> lat, track_at |-> track_at, name |-> name]

Staffs == { Staff("1", 113, lat, 0, "staff1") : lat \in {23, 24} }

\* a variant of the put that also empties the two stores
EnqueueAndReset(body) ==
    /\ nput < MaxPut
    /\ mq' = MqPut(mq, nput + 1, body)
    /\ nput' = nput + 1
    /\ tracks' = <<>>
    /\ airplanes' = <<>>
    /\ UNCHANGED <<call, channel, thr, heap>>

\* self.mq.put(message), the last and only effect of each of these methods
Enqueue(body) ==
    /\ nput < MaxPut
    /\ mq' = MqPut(mq, nput + 1, body)
    /\ nput' = nput + 1
    /\ UNCHANGED <<store, call, channel, thr, heap>>

SetCenter ==
    \E lng \in {113}, lat \in {23} :
        Enqueue([api |-> "map.setCenter", parameter |-> <<lng, lat>>])

SetZooms ==
    \E zoom_min \in {3}, zoom_max \in {20} :
        Enqueue([api |-> "map.setZooms", parameter |-> <<zoom_min, zoom_max>>])

SetLimitBounds ==
    \E south_west \in {<<112, 22>>}, north_east \in {<<114, 24>>} :
        Enqueue([api |-> "map.setLimitBounds",
                 parameter |-> <<south_west, north_east>>])

SetTrackMarkerVisibility ==
    \E visibility \in BOOLEAN :
        Enqueue([api |-> "trackLines.setMarkerVisibility", parameter |-> visibility])

AddOrUpdateDevice ==
    \E device \in Devices :
        Enqueue([api |-> "devices.addOrUpdate",
                 parameter |-> [id |-> device.id, type |-> device.type,
                                position |-> <<device.lng, device.lat>>,
                                name |-> device.name,
                                functional |-> device.functional]])

SetDeviceVisibilityByType ==
    \E type \in {"camera"}, visibility \in BOOLEAN :
        Enqueue([api |-> "devices.setVisibilityByType", type |-> type,
                 visibility |-> visibility])

AddCylinderZone ==
    \E cylinder_zone \in CylinderZones, color \in Colors :
        Enqueue([api |-> "zones.addCylinder",
                 cylinder |-> [id |-> cylinder_zone.id, type |-> cylinder_zone.type,
                               position |-> <<cylinder_zone.lng, cylinder_zone.lat>>,
                               radiusInMeter |-> cylinder_zone.radius_in_meter,
                               heightInMeter |-> cylinder_zone.height_in_meter],
                 color |-> color])

SetZoneVisibilityByTypeAndId ==
    \E type \in {"zone"}, id \in {"runway1"}, visibility \in BOOLEAN :
        Enqueue([api |-> "zones.setVisibilityByTypeAndID", type |-> type,
                 id |-> id, visibility |-> visibility])

AddOrUpdateStaff ==
    \E staff \in Staffs :
        Enqueue([api |-> "staffs.addOrUpdate",
                 parameter |-> [id |-> staff.id,
                                position |-> <<staff.lng, staff.lat>>,
                                name |-> staff.name]])

SetStaffVisibility ==
    \E visibility \in BOOLEAN :
        Enqueue([api |-> "staffs.setVisibility", parameter |-> visibility])

\* a caller that fills each store with one call and uses the other methods
NextFrame ==
    \/ tracks = <<>> /\ UpdateTrack
    \/ airplanes = <<>> /\ UpdateAirplane
    \/ SetCenter
    \/ SetZooms
    \/ SetZoom
    \/ SetPitch
    \/ SetLimitBounds
    \/ SetTrackMarkerVisibility
    \/ AddOrUpdateDevice
    \/ SetDeviceVisibilityByType
    \/ AddCuboidZone
    \/ AddCylinderZone
    \/ SetZoneVisibilityByTypeAndId
    \/ AddOrUpdateStaff
    \/ SetStaffVisibility

SpecFrame == Init /\ [][NextFrame]_vars

(***************************************************************************)
(* MonitorAdaptor's domain methods, src/monitor_adaptor.py lines 124-289.  *)
(* set_center, set_zooms, set_zoom, set_pitch, set_limit_bounds,           *)
(* add_or_update_device, set_device_visibility_by_type and                 *)
(* add_or_update_staff have the text of SceneAdaptor's methods of the same *)
(* name and are the actions above.  The others differ: a Track carries a   *)
(* danger level and its polyline prints `heights` and `danger`; the zones  *)
(* are sent as given, without colour and without computed corners; the     *)
(* visibility methods are toggle_zones_visibility_by_types_and_ids and     *)
(* toggle_staff_visibility; there is no set_track_marker_visibility.       *)
(***************************************************************************)
MonitorTrack(id, lng, lat, alt, track_at, type, size, danger) ==
    [id |-> id, lng |-> lng, lat |-> lat, alt |-> alt, track_at |-> track_at,
     type |-> type, size |-> size, danger |-> danger]

\* the samples offered to MonitorAdaptor.update_track: those of TrackSamples
\* with a danger level that differs between the samples of one id
MonitorTrackSamples ==
    { MonitorTrack(id, 113 + id, 23 + t, 50 + 10 * t, t,
                   IF t % 2 = 0 THEN "drone" ELSE "bird",
                   IF id % 2 = 0 THEN "small" ELSE "large",
                   IF (id + t) % 2 = 0 THEN "low" ELSE "high") :
        id \in TrackIds, t \in Times }

MonitorTrackBatches ==
    UNION { [1..n -> MonitorTrackSamples] : n \in 0..MaxBatch }

\* lines 176-196: one polyline; type, size and danger are read from the
\* loop variable `track` after the inner loop, the last sample of the history
MonitorTrackLine(hist) ==
    [positions |-> [i \in DOMAIN hist |-> <<hist[i].lng, hist[i].lat>>],
     heights |-> [i \in DOMAIN hist |-> hist[i].alt],
     type |-> hist[Len(hist)].type,
     size |-> hist[Len(hist)].size,
     danger |-> hist[Len(hist)].danger]

MonitorGetParameter(d) == [i \in DOMAIN d |-> MonitorTrackLine(d[i].v)]

MonitorTrackLinesCommand(d) ==
    [api |-> "trackLines.show", parameter |-> MonitorGetParameter(d),
     ids |-> KeyList(d)]

\* MonitorAdaptor.update_track(tracks, clear_timeout), lines 164-205: the
\* store is changed as in SceneAdaptor (lines 165-174 have the same text);
\* an empty batch raises ValueError at max()
MonitorUpdateTrack ==
    \E batch \in MonitorTrackBatches, clear_timeout \in TTLs :
        /\ nput < MaxTrackCalls
        /\ IF batch = <<>>
           THEN /\ call' = [op |-> "update_track", batch |-> batch,
                            ttl |-> clear_timeout, pre |-> tracks, raised |-> TRUE]
                /\ UNCHANGED <<tracks, mq, nput>>
           ELSE LET new == ApplyTrackBatch(tracks, batch, clear_timeout)
                IN  /\ tracks' = new
                    /\ mq' = MqPut(mq, nput + 1, MonitorTrackLinesCommand(new))
                    /\ nput' = nput + 1
                    /\ call' = [op |-> "update_track", batch |-> batch,
                                ttl |-> clear_timeout, pre |-> tracks, raised |-> FALSE]
        /\ UNCHANGED <<airplanes, channel, thr, heap>>

NextMonitorTrack == MonitorUpdateTrack

SpecMonitorTrack == Init /\ [][NextMonitorTrack]_vars

\* lines 230-243: the zone is sent by its centre, sides and rotation
MonitorAddCuboidZone ==
    \E cuboid_zone \in CuboidZones :
        Enqueue([api |-> "zones.addCuboid",
                 parameter |-> [id |-> cuboid_zone.id, type |-> cuboid_zone.type,
                                position |-> <<cuboid_zone.lng, cuboid_zone.lat>>,
                                lengthInMeter |-> cuboid_zone.length_in_meter,
                                widthInMeter |-> cuboid_zone.width_in_meter,
                                heightInMeter |-> cuboid_zone.height_in_meter,
                                rotation |-> cuboid_zone.rotation]])

\* lines 245-256
MonitorAddCylinderZone ==
    \E cylinder_zone \in CylinderZones :
        Enqueue([api |-> "zones.addCylinder",
                 parameter |-> [id |-> cylinder_zone.id, type |-> cylinder_zone.type,
                                position |-> <<cylinder_zone.lng, cylinder_zone.lat>>,
                                radiusInMeter |-> cylinder_zone.radius_in_meter,
                                heightInMeter |-> cylinder_zone.height_in_meter]])

\* the lists of zone types and of zone ids a caller passes
ZoneTypeLists == {<<"zone">>, <<"zone", "warning">>}

ZoneIdLists == {<<>>, <<"runway1">>}

\* lines 258-268: the two lists are printed in the order given
ToggleZonesVisibilityByTypesAndIds ==
    \E types \in ZoneTypeLists, ids \in ZoneIdLists, visibility \in BOOLEAN :
        Enqueue([api |-> "zones.toggleZonesVisibilityByTypesAndIds",
                 types |-> types, ids |-> ids, visibility |-> visibility])

\* lines 284-289
ToggleStaffVisibility ==
    \E visibility \in BOOLEAN :
        Enqueue([api |-> "staffs.toggleVisibility", parameter |-> visibility])

\* a caller of MonitorAdaptor that fills each store with one call and uses
\* the other methods
NextMonitorFrame ==
    \/ tracks = <<>> /\ MonitorUpdateTrack
    \/ airplanes = <<>> /\ MonitorUpdateAirplane
    \/ SetCenter
    \/ SetZooms
    \/ SetZoom
    \/ SetPitch
    \/ SetLimitBounds
    \/ AddOrUpdateDevice
    \/ SetDeviceVisibilityByType
    \/ MonitorAddCuboidZone
    \/ MonitorAddCylinderZone
    \/ ToggleZonesVisibilityByTypesAndIds
    \/ AddOrUpdateStaff
    \/ ToggleStaffVisibility

SpecMonitorFrame == Init /\ [][NextMonitorFrame]_vars

(***************************************************************************)
(* The websocket server of run(), lines 100-107: every accepted connection *)
(* gets its own serve coroutine on the one event loop.  Connections are    *)
(* numbered in the order they are accepted.                                *)
(***************************************************************************)
Accept(c) ==
    /\ sock[c] = "none"
    /\ \A d \in Conns : d < c => sock[d] # "none"
    /\ sock' = [sock EXCEPT ![c] = "open"]
    /\ pc' = [pc EXCEPT ![c] = "recv"]
    /\ backlog' = IF \A d \in Conns : sock[d] = "none" THEN Len(mq) ELSE backlog
    /\ shared' = [d \in Conns |->
                    IF d = c THEN \E o \in Conns : Running(o)
                    ELSE shared[d] \/ Running(d)]
    /\ UNCHANGED <<store, queue, inbox, message, sent, received, clicked, why, thr, heap>>

\* the client sends a message
ClientSend(c) ==
    \E raw \in RawMessages :
        /\ sock[c] = "open"
        /\ InboundUpTo(MaxConns) < MaxInbound
        /\ inbox' = [inbox EXCEPT ![c] = Append(@, raw)]
        /\ UNCHANGED <<store, queue, sock, pc, message, sent, received, clicked,
                       why, backlog, shared, thr, heap>>

\* the client closes the connection, or the network drops it
ClientClose(c) ==
    /\ sock[c] = "open"
    /\ sock' = [sock EXCEPT ![c] = "closed"]
    /\ UNCHANGED <<store, queue, pc, inbox, message, sent, received, clicked,
                   why, backlog, shared, thr, heap>>

(***************************************************************************)
(* serve(websocket), lines 109-122, one action per outcome of each of its  *)
(* three steps: the bounded receive with on_message, the get_nowait, the   *)
(* send.  An exception that leaves serve ends the connection.              *)
(***************************************************************************)
\* line 112 returned a message; line 116 hands it to on_message
RecvMessage(c) ==
    /\ pc[c] = "recv"
    /\ inbox[c] # <<>>
    /\ LET raw == Head(inbox[c])
           res == OnMessage(raw)
       IN  /\ inbox' = [inbox EXCEPT ![c] = Tail(@)]
           /\ received' = [received EXCEPT ![c] = Append(@, raw)]
           /\ clicked' = IF res.handler # None THEN Append(clicked, res.handler[1])
                         ELSE clicked
           /\ IF res.raised
              THEN /\ pc' = [pc EXCEPT ![c] = "ended"]
                   /\ why' = [why EXCEPT ![c] = "on_message"]
                   /\ sock' = [sock EXCEPT ![c] = "closed"]
              ELSE /\ pc' = [pc EXCEPT ![c] = "get"]
                   /\ UNCHANGED <<why, sock>>
    /\ UNCHANGED <<store, queue, message, sent, backlog, shared, thr, heap>>

\* a variant in which the timeout ends serve
RecvTimeoutEnds(c) ==
    /\ pc[c] = "recv"
    /\ inbox[c] = <<>>
    /\ sock[c] = "open"
    /\ pc' = [pc EXCEPT ![c] = "ended"]
    /\ why' = [why EXCEPT ![c] = "recv"]
    /\ UNCHANGED <<store, queue, sock, inbox, message, sent, received, clicked,
                   backlog, shared, thr, heap>>

\* a variant that waits for a message again after the timeout
RecvTimeoutRetry(c) ==
    /\ pc[c] = "recv"
    /\ inbox[c] = <<>>
    /\ sock[c] = "open"
    /\ UNCHANGED vars

\* line 113: nothing arrived within the timeout
RecvTimeout(c) ==
    /\ pc[c] = "recv"
    /\ inbox[c] = <<>>
    /\ sock[c] = "open"
    /\ pc' = [pc EXCEPT ![c] = "get"]
    /\ UNCHANGED <<store, queue, sock, inbox, message, sent, received, clicked,
                   why, backlog, shared, thr, heap>>

\* line 112: recv() raises ConnectionClosed, which serve does not catch
RecvClosed(c) ==
    /\ pc[c] = "recv"
    /\ inbox[c] = <<>>
    /\ sock[c] = "closed"
    /\ pc' = [pc EXCEPT ![c] = "ended"]
    /\ why' = [why EXCEPT ![c] = "recv"]
    /\ UNCHANGED <<store, queue, sock, inbox, message, sent, received, clicked,
                   backlog, shared, thr, heap>>

\* line 118 returned a message
GetMessage(c) ==
    /\ pc[c] = "get"
    /\ mq # <<>>
    /\ message' = [message EXCEPT ![c] = Num(GetNowait(mq).message)]
    /\ mq' = GetNowait(mq).rest
    /\ pc' = [pc EXCEPT ![c] = "send"]
    /\ UNCHANGED <<store, nput, call, sock, inbox, sent, received, clicked,
                   why, backlog, shared, thr, heap>>

\* line 119: the queue was empty
GetEmpty(c) ==
    /\ pc[c] = "get"
    /\ mq = <<>>
    /\ pc' = [pc EXCEPT ![c] = "recv"]
    /\ UNCHANGED <<store, queue, sock, inbox, message, sent, received, clicked,
                   why, backlog, shared, thr, heap>>

\* line 122 on an open connection
SendDone(c) ==
    /\ pc[c] = "send"
    /\ sock[c] = "open"
    /\ sent' = [sent EXCEPT ![c] = Append(@, message[c][1])]
    /\ message' = [message EXCEPT ![c] = None]
    /\ pc' = [pc EXCEPT ![c] = "recv"]
    /\ UNCHANGED <<store, queue, sock, inbox, received, clicked, why, backlog, shared, thr, heap>>

\* a variant that puts the message of a failed send back on the queue
SendFailedRequeue(c) ==
    /\ pc[c] = "send"
    /\ sock[c] = "closed"
    /\ mq' = Append(mq, message[c][1])
    /\ message' = [message EXCEPT ![c] = None]
    /\ pc' = [pc EXCEPT ![c] = "ended"]
    /\ why' = [why EXCEPT ![c] = "send"]
    /\ UNCHANGED <<store, nput, call, sock, inbox, sent, received, clicked,
                   backlog, shared, thr, heap>>

\* line 122 on a closed connection: send() raises ConnectionClosed, serve
\* ends, and the message it held goes with it
SendFailed(c) ==
    /\ pc[c] = "send"
    /\ sock[c] = "closed"
    /\ message' = [message EXCEPT ![c] = None]
    /\ pc' = [pc EXCEPT ![c] = "ended"]
    /\ why' = [why EXCEPT ![c] = "send"]
    /\ UNCHANGED <<store, queue, sock, inbox, sent, received, clicked, backlog, shared, thr, heap>>

NextChan ==
    \/ SetZoom
    \/ SetPitch
    \/ \E c \in Conns : Accept(c)
    \/ \E c \in Conns : ClientSend(c)
    \/ \E c \in Conns : ClientClose(c)
    \/ \E c \in Conns : RecvMessage(c)
    \/ \E c \in Conns : RecvTimeout(c)
    \/ \E c \in Conns : RecvClosed(c)
    \/ \E c \in Conns : GetMessage(c)
    \/ \E c \in Conns : GetEmpty(c)
    \/ \E c \in Conns : SendDone(c)
    \/ \E c \in Conns : SendFailed(c)

SpecChan == Init /\ [][NextChan]_vars

\* one pass of the while loop of serve for connection c, lines 110-122
Serve(c) ==
    \/ RecvMessage(c)
    \/ RecvTimeout(c)
    \/ RecvClosed(c)
    \/ GetMessage(c)
    \/ GetEmpty(c)
    \/ SendDone(c)
    \/ SendFailed(c)

\* MonitorAdaptor.serve, lines 107-120: the same loop; line 120 hands the
\* message to MonitorAdaptor.on_message
MonitorRecvMessage(c) ==
    /\ pc[c] = "recv"
    /\ inbox[c] # <<>>
    /\ LET raw == Head(inbox[c])
           res == MonitorOnMessage(raw)
       IN  /\ inbox' = [inbox EXCEPT ![c] = Tail(@)]
           /\ received' = [received EXCEPT ![c] = Append(@, raw)]
           /\ clicked' = IF res.handler # None THEN Append(clicked, res.handler[1])
                         ELSE clicked
           /\ IF res.raised
              THEN /\ pc' = [pc EXCEPT ![c] = "ended"]
                   /\ why' = [why EXCEPT ![c] = "on_message"]
                   /\ sock' = [sock EXCEPT ![c] = "closed"]
              ELSE /\ pc' = [pc EXCEPT ![c] = "get"]
                   /\ UNCHANGED <<why, sock>>
    /\ UNCHANGED <<store, queue, message, sent, backlog, shared, thr, heap>>

MonitorServe(c) ==
    \/ MonitorRecvMessage(c)
    \/ RecvTimeout(c)
    \/ RecvClosed(c)
    \/ GetMessage(c)
    \/ GetEmpty(c)
    \/ SendDone(c)
    \/ SendFailed(c)

\* the channel of a MonitorAdaptor with its first connection
NextMonitorServe ==
    \/ SetZoom
    \/ SetPitch
    \/ Accept(1)
    \/ ClientSend(1)
    \/ ClientClose(1)
    \/ MonitorServe(1)

SpecMonitorServe == Init /\ [][NextMonitorServe]_vars

\* the channel with its first connection only
NextServe ==
    \/ SetZoom
    \/ SetPitch
    \/ Accept(1)
    \/ ClientSend(1)
    \/ ClientClose(1)
    \/ Serve(1)

\* the event loop runs a serve coroutine that can take a step: recv returns
\* after at most the timeout of line 112, get_nowait never blocks
SpecServe == Init /\ [][NextServe]_vars /\ WF_vars(Serve(1))

Next == NextTrack \/ NextAir \/ NextChan

Spec == Init /\ [][Next]_vars

(***************************************************************************)
(* Properties.  They restate what they are about in terms of the state,    *)
(* with their own helpers, so that none of them repeats the operators of   *)
(* the model above.                                                        *)
(***************************************************************************)
BatchIds(batch) == {batch[i].id : i \in DOMAIN batch}

NewestIn(batch) ==
    CHOOSE m \in {batch[i].track_at : i \in DOMAIN batch} :
        \A i \in DOMAIN batch : batch[i].track_at <= m

TrackUpdated == call.op = "update_track" /\ ~call.raised

AirplaneUpdated == call.op = "update_airplane"

LastPut == mq[Len(mq)].body

\* the samples of a store of histories, as a set
SamplesOf(d) == UNION {{d[i].v[j] : j \in DOMAIN d[i].v} : i \in DOMAIN d}

\* C1: after update_track(B, ttl) with a non-empty B, every sample retained
\* in the track store, under every id of the store, is at most ttl older
\* than the newest timestamp of B.
C1_RetainedWithinWindow ==
    TrackUpdated =>
        \A i \in DOMAIN tracks : \A j \in DOMAIN tracks[i].v :
            NewestIn(call.batch) - tracks[i].v[j].track_at <= call.ttl

\* an update evicted a sample and left an id in the store that its batch
\* did not mention
C1_Witness ==
    /\ TrackUpdated
    /\ \E i \in DOMAIN tracks : tracks[i].k \notin BatchIds(call.batch)
    /\ \E s \in SamplesOf(call.pre) :
            NewestIn(call.batch) - s.track_at > call.ttl

\* C2: after a completed update_track no id of the track store maps to an
\* empty history, and no id occurs twice.
C2_NoEmptyHistory ==
    /\ \A i \in DOMAIN tracks : Len(tracks[i].v) > 0
    /\ \A i, j \in DOMAIN tracks : tracks[i].k = tracks[j].k => i = j

\* an update evicted every sample of an id, and the id left the store
C2_Witness ==
    /\ TrackUpdated
    /\ \E i \in DOMAIN call.pre :
            /\ call.pre[i].k \notin BatchIds(call.batch)
            /\ \A e \in DOMAIN tracks : tracks[e].k # call.pre[i].k

\* the heights of a polyline: SceneAdaptor prints them as heightsInMeter,
\* MonitorAdaptor as heights
HeightsOf(line) ==
    IF "heights" \in DOMAIN line THEN line.heights ELSE line.heightsInMeter

\* C10: the track-line command of an update_track call has one polyline for
\* every id left in the store, in the order of the store, drawn from all the
\* retained samples of the id, whether or not the batch mentioned the id.
C10_FullRefresh ==
    TrackUpdated =>
        /\ LastPut.api = "trackLines.show"
        /\ Len(LastPut.ids) = Len(tracks)
        /\ Len(LastPut.parameter) = Len(tracks)
        /\ \A i \in DOMAIN tracks :
            LET line == LastPut.parameter[i]
                hist == tracks[i].v
            IN  /\ LastPut.ids[i] = tracks[i].k
                /\ Len(line.positions) = Len(hist)
                /\ Len(HeightsOf(line)) = Len(hist)
                /\ \A j \in DOMAIN hist :
                    /\ line.positions[j] = <<hist[j].lng, hist[j].lat>>
                    /\ HeightsOf(line)[j] = hist[j].alt

\* the second of two updates with disjoint ids: the store holds both ids,
\* and one history has more than one sample
C10_Witness ==
    /\ TrackUpdated
    /\ Len(mq) >= 2
    /\ \E i \in DOMAIN tracks : tracks[i].k \notin BatchIds(call.batch)
    /\ \E i \in DOMAIN tracks : tracks[i].k \in BatchIds(call.batch)
    /\ \E i \in DOMAIN tracks : Len(tracks[i].v) >= 2

\* the entry of the last airplane command that shows the updated aircraft
Touched ==
    LastPut.parameter[CHOOSE i \in DOMAIN airplanes :
                        airplanes[i].k = call.airplane.id]

FirstSighting == \A i \in DOMAIN call.pre : call.pre[i].k # call.airplane.id

AllAxesUnset(entry) ==
    entry.rotateX = <<>> /\ entry.rotateY = <<>> /\ entry.rotateZ = <<>>

\* C8: when update_airplane is called with a sample whose id is not in the
\* aircraft store, the entry of that aircraft in the enqueued command has
\* rotateX, rotateY and rotateZ unset.
C8_FirstSightingUnset ==
    (AirplaneUpdated /\ FirstSighting) => AllAxesUnset(Touched)

\* a first sighting while another aircraft is in the store
C8_Witness ==
    /\ AirplaneUpdated
    /\ FirstSighting
    /\ Len(airplanes) >= 2
    /\ LastPut.api = "airplanes.show"

\* the previous sample of the updated aircraft
Previous ==
    call.pre[CHOOSE i \in DOMAIN call.pre : call.pre[i].k = call.airplane.id].v

\* C9, as claimed: the entry of the updated aircraft has all axes unset
\* exactly when its id had no stored sample before the call, and otherwise
\* its rotateX and rotateZ are the pitch and the final azimuth derived from
\* the previous and the new sample, whatever their values.
C9_OrientationDerived ==
    AirplaneUpdated =>
        /\ AllAxesUnset(Touched) <=> FirstSighting
        /\ ~FirstSighting =>
            LET result == Inverse(Previous.lat, Previous.lng,
                                  call.airplane.lat, call.airplane.lng)
            IN  /\ Touched.rotateX =
                     <<DegreesAtan2(call.airplane.alt - Previous.alt, result.s12)>>
                /\ Touched.rotateZ = <<result.azi2>>

WellFormed(raw) == raw.json /\ raw.event # <<>> /\ raw.data # <<>>

C4_NoCommandLost ==
    \A n \in 1..nput :
        \/ \E i \in DOMAIN mq : mq[i].no = n
        \/ \E c \in Conns : \E i \in DOMAIN sent[c] : sent[c][i].no = n
        \/ \E c \in Conns :
            pc[c] = "send" /\ message[c] # <<>> /\ message[c][1].no = n

\* C5, as claimed: at most one connection's merge loop is active at a time.
C5_OneLoopActive ==
    \A c, d \in Conns :
        (pc[c] \in {"recv", "get", "send"} /\ pc[d] \in {"recv", "get", "send"})
            => c = d

\* C6, as claimed: a malformed inbound message is dropped and the loop that
\* received it goes on; no loop is ended by on_message.
C6_MalformedDropped ==
    \A c \in Conns :
        (\E i \in DOMAIN received[c] : ~WellFormed(received[c][i]))
            => why[c] # "on_message"

\* C7: when the loop of a connection receives a well-formed envelope, the
\* handler is called once with its data if the event is deviceClicked and
\* not at all otherwise; the stores and the queue stay as they are, and the
\* loop goes on to its outbound step.
C7_DispatchOnlyDeviceClicked ==
    [][\A c \in Conns :
        (/\ inbox[c] # <<>>
         /\ WellFormed(Head(inbox[c]))
         /\ received'[c] = Append(received[c], Head(inbox[c])))
        => /\ clicked' = IF Head(inbox[c]).event = <<"deviceClicked">>
                         THEN Append(clicked, Head(inbox[c]).data[1])
                         ELSE clicked
           /\ tracks' = tracks
           /\ airplanes' = airplanes
           /\ mq' = mq
           /\ pc'[c] = "get"]_vars

\* one loop has received a deviceClicked envelope and an envelope of another
\* event; the handler was called for the first only, and the loop runs on
C7_Witness ==
    \E c \in Conns :
        /\ Len(received[c]) = 2
        /\ WellFormed(received[c][1]) /\ received[c][1].event = <<"deviceClicked">>
        /\ WellFormed(received[c][2]) /\ received[c][2].event # <<"deviceClicked">>
        /\ clicked = <<received[c][1].data[1]>>
        /\ pc[c] = "get"

\* C11: the command of an update_airplane call lists every aircraft left in
\* the store once, in the order of the store; the entries of all aircraft
\* but the updated one have their three axes unset.
C11_OnlyTouchedRotated ==
    AirplaneUpdated =>
        /\ Len(mq) = nput
        /\ LastPut.api = "airplanes.show"
        /\ Len(LastPut.parameter) = Len(airplanes)
        /\ \A i, j \in DOMAIN airplanes : airplanes[i].k = airplanes[j].k => i = j
        /\ \A i \in DOMAIN airplanes :
            /\ LastPut.parameter[i].name = airplanes[i].v.name
            /\ LastPut.parameter[i].position = <<airplanes[i].v.lng, airplanes[i].v.lat>>
            /\ airplanes[i].k # call.airplane.id => AllAxesUnset(LastPut.parameter[i])

\* an aircraft that an earlier command showed with a heading is listed with
\* all axes unset by the command of an update of another aircraft
C11_Witness ==
    /\ AirplaneUpdated
    /\ Len(mq) = 3
    /\ \E i \in DOMAIN airplanes :
        /\ airplanes[i].k # call.airplane.id
        /\ AllAxesUnset(LastPut.parameter[i])
        /\ \E e \in DOMAIN mq[2].body.parameter :
            /\ mq[2].body.parameter[e].name = airplanes[i].v.name
            /\ mq[2].body.parameter[e].rotateZ # <<>>

\* C12: after update_airplane(s, ttl) the aircraft store has one sample per
\* id, the sample under s.id is s, and no stored sample is more than ttl
\* older than s.
C12_AirplaneStore ==
    AirplaneUpdated =>
        /\ \A i, j \in DOMAIN airplanes : airplanes[i].k = airplanes[j].k => i = j
        /\ \A i \in DOMAIN airplanes : airplanes[i].v.id = airplanes[i].k
        /\ \E i \in DOMAIN airplanes :
            airplanes[i].k = call.airplane.id /\ airplanes[i].v = call.airplane
        /\ \A i \in DOMAIN airplanes :
            call.airplane.track_at - airplanes[i].v.track_at <= call.ttl

\* an update removed another aircraft whose sample was too old, and replaced
\* the sample of its own id
C12_Witness ==
    /\ AirplaneUpdated
    /\ ~FirstSighting
    /\ Previous # call.airplane
    /\ \E i \in DOMAIN call.pre :
        /\ call.pre[i].k # call.airplane.id
        /\ \A j \in DOMAIN airplanes : airplanes[j].k # call.pre[i].k

\* C15: update_track has no failure modes: the call completes without an
\* error for a batch of any size, the empty one included, and any ttl.
C15_UpdateTrackNeverFails ==
    call.op = "update_track" => ~call.raised

\* the history of an id before the call, and the samples the batch has for it
HistoryBefore(id) ==
    IF \E i \in DOMAIN call.pre : call.pre[i].k = id
    THEN (CHOOSE e \in {call.pre[i] : i \in DOMAIN call.pre} : e.k = id).v
    ELSE <<>>

BatchFor(id) == SelectSeq(call.batch, LAMBDA s : s.id = id)

Surviving(id) ==
    SelectSeq(HistoryBefore(id) \o BatchFor(id),
              LAMBDA s : NewestIn(call.batch) - s.track_at <= call.ttl)

\* C16: after update_track(B, ttl) the history of every id is its previous
\* history followed by the samples B has for the id, restricted to the
\* samples at most ttl older than the newest sample of B, in the same order;
\* an id with nothing left has no entry.
C16_EvictsExactlyOutOfWindow ==
    TrackUpdated =>
        \A id \in TrackIds :
            /\ Surviving(id) = <<>> => \A i \in DOMAIN tracks : tracks[i].k # id
            /\ Surviving(id) # <<>> =>
                \E i \in DOMAIN tracks : tracks[i].k = id /\ tracks[i].v = Surviving(id)

\* a batch evicts the old sample of its own id and keeps, in order, an old
\* sample of another id that is exactly ttl old together with a new one
C16_Witness ==
    /\ TrackUpdated
    /\ \E id \in TrackIds :
        /\ Len(HistoryBefore(id)) = 1
        /\ Len(BatchFor(id)) = 1
        /\ Surviving(id) = BatchFor(id)
    /\ \E id \in TrackIds :
        /\ Len(HistoryBefore(id)) = 1
        /\ NewestIn(call.batch) - HistoryBefore(id)[1].track_at = call.ttl
        /\ Len(Surviving(id)) = 2

\* C19: in every airplane command every listed aircraft has its rotateY
\* axis unset, whether or not the aircraft was seen before.
C19_RollAxisUnset ==
    \A m \in DOMAIN mq :
        mq[m].body.api = "airplanes.show" =>
            \A i \in DOMAIN mq[m].body.parameter :
                mq[m].body.parameter[i].rotateY = <<>>

\* the places that hold command number n: the queue, a serve between its
\* get and its send, the commands a connection has sent
PlacesOf(n) ==
    {<<"mq", i>> : i \in {j \in DOMAIN mq : mq[j].no = n}}
    \cup {<<"held", c>> : c \in {d \in Conns : message[d] # <<>> /\ message[d][1].no = n}}
    \cup UNION {{<<"sent", c, i>> : i \in {j \in DOMAIN sent[c] : sent[c][j].no = n}} :
                c \in Conns}

\* command n was put and is nowhere any more
Lost(n) == n <= nput /\ PlacesOf(n) = {}

\* C17: a send that fails ends the serve loop of its connection for good;
\* the command is not put back and not sent again, by this connection or a
\* later one, and the queue is left as it was for the next connection.
C17_FailedSendNotRetried ==
    [][ /\ \A c \in Conns :
            /\ (pc[c] = "send" /\ sock[c] = "closed" /\ pc'[c] # "send") =>
                    /\ pc'[c] = "ended"
                    /\ why'[c] = "send"
                    /\ message'[c] = <<>>
                    /\ mq' = mq
                    /\ sent' = sent
                    /\ \E n \in 1..nput : n = message[c][1].no /\ Lost(n)'
            /\ pc[c] = "ended" => pc'[c] = "ended" /\ sent'[c] = sent[c]
        /\ \A n \in 1..nput : Lost(n) => Lost(n)' ]_vars

\* the first connection ended on a failed send; the second one, accepted
\* after that, has emptied the queue
C17_Witness ==
    /\ why[1] = "send"
    /\ Lost(1)
    /\ ~shared[2]
    /\ Len(sent[2]) = 2
    /\ mq = <<>>

\* C18: the queue hands every command over once: a put appends the command
\* and disturbs nothing that waits, a get takes the oldest command to one
\* serve loop, a send delivers the command the loop took, no command is in
\* two places, and every connection sends its commands in the order of
\* their puts.
C18_QueueHandOff ==
    [][ /\ \A n \in 1..nput' : Cardinality(PlacesOf(n)') <= 1
        /\ nput' # nput =>
            /\ nput' = nput + 1
            /\ Len(mq') = Len(mq) + 1
            /\ SubSeq(mq', 1, Len(mq)) = mq
            /\ mq'[Len(mq')].no = nput'
        /\ (nput' = nput /\ mq' # mq) =>
            /\ mq # <<>>
            /\ mq' = Tail(mq)
            /\ \E c \in Conns :
                /\ message[c] = <<>>
                /\ message'[c] = <<Head(mq)>>
                /\ \A d \in Conns \ {c} : message'[d] = message[d]
        /\ \A c \in Conns :
            /\ sent'[c] # sent[c] =>
                /\ message[c] # <<>>
                /\ sent'[c] = Append(sent[c], message[c][1])
            /\ \A i, j \in DOMAIN sent'[c] :
                i < j => sent'[c][i].no < sent'[c][j].no ]_vars

\* one connection has sent the commands of two different methods while a
\* third command waits
C18_Witness ==
    /\ Len(sent[1]) = 2
    /\ sent[1][1].body.api # sent[1][2].body.api
    /\ Len(mq) = 1
    /\ nput = 3

InQueue(n) == \E i \in DOMAIN mq : mq[i].no = n

Delivered(n) == \E c \in Conns : \E i \in DOMAIN sent[c] : sent[c][i].no = n

C20_CornersInOrder ==
    call.op = "add_cuboid_zone" =>
        LET zone   == call.zone
            d      == Deviation(zone.width_in_meter, zone.length_in_meter)
            turn   == zone.rotation * 1000000
            half   == Diagonal(zone.length_in_meter, zone.width_in_meter)
            corner(azimuth) ==
                LET end == Direct(zone.lat, zone.lng, azimuth, half)
                IN  <<end.lon2, end.lat2>>
        IN  /\ LastPut.api = "zones.addCuboid"
            /\ DOMAIN LastPut.cuboid.positions = 1..4
            /\ LastPut.cuboid.positions[1] = corner(turn - d)
            /\ LastPut.cuboid.positions[2] = corner(turn + d)
            /\ LastPut.cuboid.positions[3] = corner(turn + 180000000 - d)
            /\ LastPut.cuboid.positions[4] = corner(turn + 180000000 + d)

\* a zone turned by a quarter has the same four corners as the zone with
\* its sides exchanged, in another order
C20_Witness ==
    /\ call.op = "add_cuboid_zone"
    /\ Len(mq) = 2
    /\ call.zone.rotation = 90
    /\ mq[1].body.cuboid.positions # mq[2].body.cuboid.positions
    /\ {mq[1].body.cuboid.positions[i] : i \in 1..4}
            = {mq[2].body.cuboid.positions[i] : i \in 1..4}
    /\ Cardinality({mq[2].body.cuboid.positions[i] : i \in 1..4}) = 4

\* the store that the two calls found: empty, or what an earlier call left
StoreBefore ==
    IF call.op = "update_track" THEN ApplyTrackBatch(<<>>, call.batch, call.ttl)
    ELSE <<>>

\* what the two calls leave when the call of thread t runs before that of
\* thread u
SerialOrder(t, u) ==
    LET first  == ApplyTrackBatch(StoreBefore, thr[t].batch, thr[t].ttl)
        second == ApplyTrackBatch(first, thr[u].batch, thr[u].ttl)
    IN  [tracks |-> second,
         commands |-> <<TrackLinesCommand(first), TrackLinesCommand(second)>>]

\* C14: when two threads have called update_track at the same time and both
\* calls are over, neither call has failed, and the store and the commands
\* on the queue are those of one of the two serial orders of the calls.
C14_SerialOutcome ==
    (\A t \in Threads : thr[t].pc \in {"done", "failed"}) =>
        /\ \A t \in Threads : thr[t].pc = "done"
        /\ \E t, u \in Threads :
            /\ t # u
            /\ tracks = SerialOrder(t, u).tracks
            /\ Len(mq) = nput
            /\ nput >= 2
            /\ <<mq[nput - 1].body, mq[nput].body>> = SerialOrder(t, u).commands

\* the aircraft of the given name is listed by command number n of the queue
Listed(n, name) ==
    \E i \in DOMAIN mq[n].body.parameter : mq[n].body.parameter[i].name = name

\* C24: an aircraft that an earlier command listed, that the command before
\* the last one no longer listed, and that is updated again is shown by
\* the command of that update with all three axes unset.
C24_ReturnAfterEvictionUnset ==
    (/\ AirplaneUpdated
     /\ Len(mq) = nput
     /\ Len(mq) >= 3
     /\ ~Listed(Len(mq) - 1, call.airplane.name)
     /\ \E n \in 1..(Len(mq) - 2) : Listed(n, call.airplane.name))
        => \A i \in DOMAIN LastPut.parameter :
                LastPut.parameter[i].name = call.airplane.name
                    => AllAxesUnset(LastPut.parameter[i])

\* an aircraft seen in the north, evicted by the update of another one, is
\* updated again further south while the other is still in the store
C24_Witness ==
    /\ AirplaneUpdated
    /\ Len(mq) = 3
    /\ Listed(1, call.airplane.name)
    /\ ~Listed(2, call.airplane.name)
    /\ Listed(3, call.airplane.name)
    /\ mq[1].body.parameter[1].position[2] > call.airplane.lat
    /\ Len(LastPut.parameter) = 2

\* C25: after update_track(B, ttl) every sample that was in the store and
\* whose time is at least the newest time of B minus ttl is still in the
\* store under its id, the samples newer than every sample of B included.
C25_NewerSamplesKept ==
    TrackUpdated =>
        \A i \in DOMAIN call.pre : \A j \in DOMAIN call.pre[i].v :
            LET s == call.pre[i].v[j]
            IN  s.track_at >= NewestIn(call.batch) - call.ttl =>
                    \E e \in DOMAIN tracks :
                        /\ tracks[e].k = call.pre[i].k
                        /\ \E f \in DOMAIN tracks[e].v : tracks[e].v[f] = s

\* a batch that is older than a stored sample by more than ttl, and evicts
\* another stored sample
C25_Witness ==
    /\ TrackUpdated
    /\ \E s \in SamplesOf(call.pre) :
        /\ s.track_at - NewestIn(call.batch) > call.ttl
        /\ s \in SamplesOf(tracks)
    /\ \E s \in SamplesOf(call.pre) : s \notin SamplesOf(tracks)

\* C22: a receive that times out on an open connection does not end the
\* loop: the loop goes on to the queue and takes the waiting command.  A
\* pass of the loop goes from the receive to the queue and then, with a
\* command, to the send; only the receive hands a message to on_message,
\* one per pass, and only the send delivers a command, one per pass.
C22_TimeoutIsControlFlow ==
    [][ \A c \in Conns :
        /\ (pc[c] = "recv" /\ inbox[c] = <<>> /\ sock[c] = "open" /\ pc'[c] # "recv") =>
                /\ pc'[c] = "get"
                /\ why'[c] = "running"
                /\ received'[c] = received[c]
        /\ (pc[c] = "recv" /\ pc'[c] # "recv") =>
                /\ pc'[c] \in {"get", "ended"}
                /\ sent'[c] = sent[c]
                /\ mq' = mq
        /\ (pc[c] = "get" /\ pc'[c] # "get") =>
                /\ pc'[c] = IF mq # <<>> THEN "send" ELSE "recv"
                /\ mq # <<>> => message'[c] = <<Head(mq)>> /\ mq' = Tail(mq)
                /\ received'[c] = received[c]
        /\ (pc[c] = "send" /\ pc'[c] # "send") =>
                /\ pc'[c] \in {"recv", "ended"}
                /\ received'[c] = received[c]
        /\ received'[c] # received[c] =>
                /\ pc[c] = "recv"
                /\ Len(received'[c]) = Len(received[c]) + 1
        /\ sent'[c] # sent[c] =>
                /\ pc[c] = "send"
                /\ Len(sent'[c]) = Len(sent[c]) + 1 ]_vars

\* a connection whose client never sent anything has delivered two
\* commands and is waiting for a message again
C22_Witness ==
    /\ pc[1] = "recv"
    /\ sock[1] = "open"
    /\ received[1] = <<>>
    /\ inbox[1] = <<>>
    /\ Len(sent[1]) = 2
    /\ why[1] = "running"

\* C23: in a MonitorAdaptor no inbound message calls device_clicked_handler,
\* changes a store or the queue, or ends the loop.
C23_MonitorOnlyLogs ==
    [][ /\ clicked' = <<>>
        /\ \A c \in Conns :
            received'[c] # received[c] =>
                /\ tracks' = tracks
                /\ airplanes' = airplanes
                /\ mq' = mq
                /\ nput' = nput
                /\ pc'[c] = "get"
                /\ why'[c] = "running" ]_vars

\* a MonitorAdaptor has received a well-formed deviceClicked envelope and a
\* text that is no JSON, and its loop is still running
C23_Witness ==
    /\ Running(1)
    /\ \E i \in DOMAIN received[1] :
        /\ WellFormed(received[1][i])
        /\ received[1][i].event = <<"deviceClicked">>
    /\ \E i \in DOMAIN received[1] : ~received[1][i].json
    /\ clicked = <<>>

\* the commands of the two methods that keep a store
StoreApis == {"trackLines.show", "airplanes.show"}

\* C21: a call of any method other than update_track and update_airplane
\* adds exactly one command at the tail of the queue, leaves the waiting
\* commands as they are, and changes neither the track store nor the
\* aircraft store.
C21_StatelessMethods ==
    [][ (nput' # nput /\ mq'[Len(mq')].body.api \notin StoreApis) =>
            /\ nput' = nput + 1
            /\ Len(mq') = Len(mq) + 1
            /\ SubSeq(mq', 1, Len(mq)) = mq
            /\ mq'[Len(mq')].no = nput'
            /\ tracks' = tracks
            /\ airplanes' = airplanes ]_vars

\* with both stores filled, a device is upserted: the stores are as the two
\* store commands showed them, and the upsert is the third command
C21_Witness ==
    /\ Len(mq) = 3
    /\ mq[1].body.api = "trackLines.show"
    /\ mq[2].body.api = "airplanes.show"
    /\ mq[3].body.api = "devices.addOrUpdate"
    /\ Len(tracks) = 2
    /\ Len(airplanes) = 1

=============================================================================
